---- MODULE Spec2Model ----
(***************************************************************************)
(* Model of onyx_render.py: the signal smoother (moving_average,           *)
(* subsample, smoothen), the per-stroke decode and draw loop of            *)
(* render_pdf, and the note loop of render_all.                            *)
(*                                                                         *)
(* Numbers are fixed point.  Pressure is held in units of 1/pressure_norm, *)
(* a line width in units of 1/10000 (so thickness * 0.3 is                 *)
(* thickness * width_scale * PUnit), a colour channel in units of 1/255,   *)
(* positions in device units times scale.  The rows render_pdf draws from  *)
(* are chosen so that every division the code performs on them is exact;  *)
(* on the inputs of SmoothSpec a quotient is truncated.                    *)
(***************************************************************************)
EXTENDS Integers, Sequences, FiniteSets, TLC

\* ------------------------------------------------------------- bounds
MaxNotes == 2
MaxPages == 2
MaxStrokes == 2
MaxLen == 4
MaxWin == 4
MaxFactor == 3

\* ---------------------------------------------------- program constants
width_scale == 3
pressure_norm == 1000
n_subsample == 2
average_win_size == 10
scale == 792
MinWidth == 1000
PressureTag == 5
Stride == 6
MatrixLen == 9
CairoDefaultLineWidth == 20000
enable_pressure == TRUE

PUnit == pressure_norm

VARIABLES
    numNotes,        \* len(notes) returned by read_doc_list
    noteIdx,         \* position of render_all's loop over notes
    pc,              \* "next_note" | "pages" | "rows" | "raised" | "exit"
    err,             \* the exception that left render_all, or "none"
    attempted,       \* indices of the notes render_pdf was invoked for
    numPages,        \* len(descriptor["pages"]) of the current note
    pageIdx,         \* position of render_pdf's loop over pages
    prev_color,      \* render_pdf local
    prev_thickness,  \* render_pdf local
    cr,              \* the cairo context: line width, source, path, point
    ops,             \* history: the calls made on cr for the current note
    rendered,        \* history: the rows fetched for the current note
    sm               \* the smoother's call under test (SmoothSpec only)

vars == <<numNotes, noteIdx, pc, err, attempted, numPages, pageIdx,
          prev_color, prev_thickness, cr, ops, rendered, sm>>

\* ------------------------------------------------------------ helpers
Max(a, b) == IF a >= b THEN a ELSE b

Repeat(x, n) == [i \in 1..n |-> x]

VecAdd(a, b) == [i \in DOMAIN a |-> a[i] + b[i]]
VecSub(a, b) == [i \in DOMAIN a |-> a[i] - b[i]]
VecDiv(a, n) == [i \in DOMAIN a |-> a[i] \div n]

RECURSIVE Flatten(_)
Flatten(ss) == IF ss = <<>> THEN <<>> ELSE Head(ss) \o Flatten(Tail(ss))

\* np.cumsum(bdata, 0)
RECURSIVE cumsum(_)
cumsum(s) ==
    IF Len(s) <= 1 THEN s
    ELSE LET c == cumsum(SubSeq(s, 1, Len(s) - 1))
         IN  Append(c, VecAdd(c[Len(c)], s[Len(s)]))

\* ----------------------------------------------------- signal smoother
moving_average_nopad(bdata, window_size) ==
    IF window_size <= 1 THEN bdata
    ELSE LET csum == cumsum(bdata)
             n == Len(csum)
             hi == SubSeq(csum, window_size + 1, n)
             lo == SubSeq(csum, 1, n - window_size)
         IN  [i \in 1..Len(hi) |-> VecDiv(VecSub(hi[i], lo[i]), window_size)]

moving_average(bdata, window_size) ==
    IF window_size <= 1 THEN bdata
    ELSE LET first == SubSeq(bdata, 1, 1)
             last == SubSeq(bdata, Len(bdata), Len(bdata))
             before == window_size \div 2
             after == window_size - before
             bpad == Repeat(first, before)
             epad == Repeat(last, after)
             padded == Flatten(bpad) \o bdata \o Flatten(epad)
             csum == cumsum(padded)
             n == Len(csum)
             hi == SubSeq(csum, window_size + 1, n)
             lo == SubSeq(csum, 1, n - window_size)
         IN  [i \in 1..Len(hi) |-> VecDiv(VecSub(hi[i], lo[i]), window_size)]

RECURSIVE BlockSum(_, _, _)
BlockSum(s, from, to) ==
    IF from = to THEN s[from] ELSE VecAdd(s[from], BlockSum(s, from + 1, to))

subsample(bdata, factor) ==
    IF factor <= 1 THEN bdata
    ELSE LET n == Len(bdata)
             last == SubSeq(bdata, n, n)
             padded == IF n % factor /= 0
                       THEN bdata \o Flatten(Repeat(last, factor - (n % factor)))
                       ELSE bdata
             blocks == Len(padded) \div factor
         IN  [b \in 1..blocks |->
                 VecDiv(BlockSum(padded, (b - 1) * factor + 1, b * factor), factor)]

smoothen(bdata, window_size, n_sub) ==
    subsample(moving_average(bdata, window_size), n_sub)

\* ------------------------------------------------------ stroke decoder
\* d.reshape(-1, 6): a ValueError unless the floats split into whole rows
reshape6_truncating(d) ==
    [ok |-> TRUE,
     rows |-> [i \in 1..(Len(d) \div Stride) |->
                  SubSeq(d, (i - 1) * Stride + 1, i * Stride)]]

reshape6(d) ==
    IF Len(d) % Stride /= 0
    THEN [ok |-> FALSE, rows |-> <<>>]
    ELSE [ok |-> TRUE,
          rows |-> [i \in 1..(Len(d) \div Stride) |->
                       SubSeq(d, (i - 1) * Stride + 1, i * Stride)]]

\* np.asarray(values).reshape(3, 3): a ValueError unless there are 9 values
reshape33(values) ==
    IF Len(values) /= MatrixLen
    THEN [ok |-> FALSE, m |-> <<>>]
    ELSE [ok |-> TRUE,
          m |-> [i \in 1..3 |-> SubSeq(values, (i - 1) * 3 + 1, i * 3)]]

\* the largest r in lo..hi with r * r <= n
RECURSIVE SqrtBetween(_, _, _)
SqrtBetween(n, lo, hi) ==
    IF lo >= hi THEN lo
    ELSE LET mid == (lo + hi + 1) \div 2
         IN  IF mid * mid <= n THEN SqrtBetween(n, mid, hi)
             ELSE SqrtBetween(n, lo, mid - 1)

\* (d[:,2] / pressure_norm) ** pressure_pow, pressure_pow = 0.5
normalize(raw) ==
    LET v == (raw * PUnit) \div pressure_norm
    IN  SqrtBetween(v * PUnit, 0, Max(v, PUnit))

pressure_of(d) == [i \in 1..Len(d) |-> <<normalize(d[i][3])>>]

\* points @ matrix.T on (x, y, 1), first two components kept
project(d, m) ==
    [i \in 1..Len(d) |->
        LET p == <<d[i][1], d[i][2], 1>>
        IN  <<p[1] * m[1][1] + p[2] * m[1][2] + p[3] * m[1][3],
              p[1] * m[2][1] + p[2] * m[2][2] + p[3] * m[2][3]>>]

scaled(points) == [i \in 1..Len(points) |-> <<points[i][1] * scale, points[i][2] * scale>>]

\* ------------------------------------------------------- cairo context
NoPoint == <<>>

NewContext ==
    [lw |-> CairoDefaultLineWidth, src |-> <<0, 0, 0>>, path |-> <<>>, cur |-> NoPoint]

\* the effect of one call on the context; seg tags a segment with the
\* thickness and shape type of the stroke that drew it
Apply(c, op, arg, ctx) ==
    CASE op = "set_line_width" -> [c EXCEPT !.lw = arg[1]]
      [] op = "set_source_rgb" -> [c EXCEPT !.src = arg]
      [] op = "move_to" -> [c EXCEPT !.cur = arg]
      [] op = "line_to" ->
            IF c.cur = NoPoint THEN [c EXCEPT !.cur = arg]
            ELSE [c EXCEPT !.cur = arg,
                           !.path = Append(@, [a |-> c.cur, b |-> arg, pg |-> ctx.pg,
                                               sk |-> ctx.sk, thick |-> ctx.thick,
                                               type |-> ctx.type])]
      [] op = "stroke" -> [c EXCEPT !.path = <<>>, !.cur = NoPoint]
      [] OTHER -> c

\* one call on the context, logged with the line that makes it and the
\* width, source and pending path it finds
Call(st, op, arg, ln, ctx) ==
    [cr |-> Apply(st.cr, op, arg, ctx),
     ops |-> Append(st.ops, [op |-> op, arg |-> arg, ln |-> ln, pg |-> ctx.pg,
                             sk |-> ctx.sk, w |-> st.cr.lw, src |-> st.cr.src,
                             pend |-> st.cr.path])]

\* ------------------------------------------------------- path renderer
thickness_changed_always(prev, thickness) == TRUE

thickness_changed(prev, thickness) == prev /= thickness

\* color & 0xFF, (color >> 8) & 0xFF, (color >> 16) & 0xFF
color_bytes_swapped(color) ==
    <<(color \div 65536) % 256, (color \div 256) % 256, color % 256>>

color_bytes(color) ==
    <<color % 256, (color \div 256) % 256, (color \div 65536) % 256>>

color_changed(color, prev) == color /= prev

\* the arguments of set_source_rgb: color[2]/255, color[1]/255, color[0]/255
source_of(color) == <<color[3], color[2], color[1]>>

has_pressure(type) == enable_pressure /\ type = PressureTag

\* thickness * width_scale
fixed_width(thickness) == thickness * width_scale * PUnit

\* max(thickness * width_scale * pressure[r], 0.1)
pressure_width(thickness, p) == Max(thickness * width_scale * p, MinWidth)

\* lines 130-134
ThicknessStep(st, prev, thickness, ctx) ==
    IF thickness_changed(prev, thickness)
    THEN Call(Call(st, "stroke", <<>>, 132, ctx),
              "set_line_width", <<fixed_width(thickness)>>, 134, ctx)
    ELSE st

\* lines 136-141
ColorStep_noflush(st, prev, color, ctx) ==
    IF color_changed(color, prev)
    THEN Call(st, "set_source_rgb", source_of(color), 141, ctx)
    ELSE st

ColorStep(st, prev, color, ctx) ==
    IF color_changed(color, prev)
    THEN Call(Call(st, "stroke", <<>>, 139, ctx),
              "set_source_rgb", source_of(color), 141, ctx)
    ELSE st

\* one pass of the loop over the smoothed samples, lines 151-162; sample r
\* of the code is sample r + 1 here
SampleCalls_noflush(st, r, points, pressure, ctx) ==
    LET hp == has_pressure(ctx.type)
        s1 == IF hp
              THEN Call(st, "set_line_width",
                        <<pressure_width(ctx.thick, pressure[r][1])>>, 152, ctx)
              ELSE st
    IN  IF r = 1 THEN Call(s1, "move_to", points[r], 155, ctx)
        ELSE Call(s1, "line_to", points[r], 157, ctx)

SampleCalls(st, r, points, pressure, ctx) ==
    LET hp == has_pressure(ctx.type)
        s1 == IF hp
              THEN Call(st, "set_line_width",
                        <<pressure_width(ctx.thick, pressure[r][1])>>, 152, ctx)
              ELSE st
    IN  IF r = 1 THEN Call(s1, "move_to", points[r], 155, ctx)
        ELSE LET s2 == Call(s1, "line_to", points[r], 157, ctx)
             IN  IF hp
                 THEN Call(Call(s2, "stroke", <<>>, 161, ctx),
                           "move_to", points[r], 162, ctx)
                 ELSE s2

RECURSIVE DrawSamples(_, _, _, _, _)
DrawSamples(st, r, points, pressure, ctx) ==
    IF r > Len(points) THEN st
    ELSE DrawSamples(SampleCalls(st, r, points, pressure, ctx),
                     r + 1, points, pressure, ctx)

\* the smoothed samples of a decoded row, lines 143-148
SmoothPoints(d, m) == smoothen(scaled(project(d, m)), average_win_size, n_subsample)
SmoothPressure(d) == smoothen(pressure_of(d), average_win_size, n_subsample)

\* the body of the loop over a page's rows, lines 114-162, from the
\* context and tracked state in st
render_row(st, row, pg, sk) ==
    LET mat == reshape33(row.matrix)
        dec == reshape6(row.points)
        ctx == [pg |-> pg, sk |-> sk, thick |-> row.thickness, type |-> row.type]
        color == color_bytes(row.color)
        s0 == [cr |-> st.cr, ops |-> st.ops]
        s1 == ThicknessStep(s0, st.prev_thickness, row.thickness, ctx)
        s2 == ColorStep(s1, st.prev_color, color, ctx)
        s3 == DrawSamples(s2, 1, SmoothPoints(dec.rows, mat.m),
                          SmoothPressure(dec.rows), ctx)
    IN  IF ~mat.ok THEN [st EXCEPT !.err = "matrix"]
        ELSE IF ~dec.ok THEN [st EXCEPT !.err = "reshape"]
        ELSE [err |-> "none", cr |-> s3.cr, ops |-> s3.ops,
              prev_thickness |-> row.thickness, prev_color |-> color]

\* lines 164-165
end_page_noflush(st, pg) ==
    LET ctx == [pg |-> pg, sk |-> 0, thick |-> 0, type |-> 0]
    IN  Call(st, "show_page", <<>>, 165, ctx)

end_page(st, pg) ==
    LET ctx == [pg |-> pg, sk |-> 0, thick |-> 0, type |-> 0]
    IN  Call(Call(st, "stroke", <<>>, 164, ctx), "show_page", <<>>, 165, ctx)

\* ------------------------------------------------------------- inputs
\* point buffers (floats after the byte swap): x, y, pressure source and
\* three unused floats per sample
Buf1 == <<10, 5, 250, 0, 0, 0>>
Buf3 == <<0, 0, 0, 0, 0, 0,   10, 10, 250, 0, 0, 0,   20, 20, 1000, 0, 0, 0>>
Buf5 == <<0, 5, 0, 0, 0, 0,   10, 5, 250, 0, 0, 0,   20, 5, 250, 0, 0, 0,
          30, 5, 1000, 0, 0, 0,   40, 5, 1000, 0, 0, 0>>
BufBad == <<0, 0, 0, 0, 0, 0,   10>>
MatId == <<1, 0, 0,   0, 1, 0,   0, 0, 1>>
MatSwap == <<0, 1, 0,   1, 0, 10,   0, 0, 1>>
MatBad == <<1, 0, 0,   0, 1, 0,   0, 0>>

Thicknesses == {0, 2}
Colors == {0, 255}
Types == {1, PressureTag}

\* the rows a page's query may yield: every thickness, shape type and colour
\* on the 3-sample buffer, the 5-sample buffer under a second transform, a
\* pressure stroke of a single sample, and rows whose point buffer or matrix
\* is malformed
Rows ==
    {[points |-> Buf3, matrix |-> MatId, thickness |-> t, type |-> ty, color |-> c] :
        t \in Thicknesses, ty \in Types, c \in Colors}
    \cup {[points |-> Buf5, matrix |-> MatSwap, thickness |-> 2, type |-> ty,
           color |-> 0] : ty \in Types}
    \cup {[points |-> Buf1, matrix |-> MatId, thickness |-> 2, type |-> PressureTag,
           color |-> 255]}
    \cup {[points |-> BufBad, matrix |-> MatId, thickness |-> t, type |-> 1,
           color |-> 255] : t \in Thicknesses}
    \cup {[points |-> Buf3, matrix |-> MatBad, thickness |-> 2, type |-> 1,
           color |-> 255]}

SmElems == {<<0, 0>>, <<20, 40>>}
SmInputs == UNION {[1..n -> SmElems] : n \in 1..MaxLen}
SmIdle == [fn |-> "idle", data |-> <<>>, w |-> 0, k |-> 0, out |-> <<>>]

\* ------------------------------------------------------- state machine
Init ==
    /\ numNotes = MaxNotes
    /\ noteIdx = 1
    /\ pc = "next_note"
    /\ err = "none"
    /\ attempted = <<>>
    /\ numPages = 0
    /\ pageIdx = 0
    /\ prev_color = <<0, 0, 0>>
    /\ prev_thickness = 0
    /\ cr = NewContext
    /\ ops = <<>>
    /\ rendered = <<>>
    /\ sm = SmIdle

NoteCtx == [pg |-> 0, sk |-> 0, thick |-> 0, type |-> 0]

\* render_all, lines 179-180: os.makedirs raises
MakeDirsFail ==
    /\ pc = "next_note"
    /\ noteIdx <= numNotes
    /\ pc' = "raised"
    /\ err' = "makedirs"
    /\ UNCHANGED <<numNotes, noteIdx, attempted, numPages, pageIdx, prev_color,
                   prev_thickness, cr, ops, rendered, sm>>

\* render_pdf, line 88: cairo.PDFSurface raises
SurfaceFail ==
    /\ pc = "next_note"
    /\ noteIdx <= numNotes
    /\ attempted' = Append(attempted, noteIdx)
    /\ pc' = "raised"
    /\ err' = "surface"
    /\ UNCHANGED <<numNotes, noteIdx, numPages, pageIdx, prev_color,
                   prev_thickness, cr, ops, rendered, sm>>

\* render_all calls render_pdf, which runs to its loop over pages, lines 86-107
BeginNote ==
    /\ pc = "next_note"
    /\ noteIdx <= numNotes
    /\ attempted' = Append(attempted, noteIdx)
    /\ \E k \in 0..MaxPages : numPages' = k
    /\ pageIdx' = 0
    /\ LET st == Call([cr |-> NewContext, ops |-> <<>>],
                      "set_source_rgb", <<0, 0, 0>>, 100, NoteCtx)
       IN  cr' = st.cr /\ ops' = st.ops
    /\ prev_color' = <<0, 0, 0>>
    /\ prev_thickness' = 0
    /\ rendered' = <<>>
    /\ pc' = "pages"
    /\ UNCHANGED <<numNotes, noteIdx, err, sm>>

\* the loop over pages takes the next page and queries its rows, lines 108-110
BeginPage ==
    /\ pc = "pages"
    /\ pageIdx < numPages
    /\ pageIdx' = pageIdx + 1
    /\ pc' = "rows"
    /\ UNCHANGED <<numNotes, noteIdx, err, attempted, numPages, prev_color,
                   prev_thickness, cr, ops, rendered, sm>>

\* the cursor yields a row and the loop body runs on it, lines 112-162
RenderStroke ==
    /\ pc = "rows"
    /\ Len(rendered) < MaxStrokes
    /\ \E row \in Rows :
          \E res \in {render_row([err |-> "none", cr |-> cr, ops |-> ops,
                                  prev_thickness |-> prev_thickness,
                                  prev_color |-> prev_color],
                                 row, pageIdx, Len(rendered) + 1)} :
              /\ rendered' = Append(rendered, [pg |-> pageIdx, row |-> row])
              /\ err' = res.err
              /\ pc' = IF res.err = "none" THEN "rows" ELSE "raised"
              /\ cr' = res.cr
              /\ ops' = res.ops
              /\ prev_thickness' = res.prev_thickness
              /\ prev_color' = res.prev_color
    /\ UNCHANGED <<numNotes, noteIdx, attempted, numPages, pageIdx, sm>>

\* the cursor is exhausted: the page is stroked and shown, lines 164-165
EndPage ==
    /\ pc = "rows"
    /\ LET st == end_page([cr |-> cr, ops |-> ops], pageIdx)
       IN  cr' = st.cr /\ ops' = st.ops
    /\ pc' = "pages"
    /\ UNCHANGED <<numNotes, noteIdx, err, attempted, numPages, pageIdx,
                   prev_color, prev_thickness, rendered, sm>>

\* render_pdf returns and render_all moves to the next note, lines 178-183
ReturnNote ==
    /\ pc = "pages"
    /\ pageIdx = numPages
    /\ noteIdx' = noteIdx + 1
    /\ pc' = "next_note"
    /\ UNCHANGED <<numNotes, err, attempted, numPages, pageIdx, prev_color,
                   prev_thickness, cr, ops, rendered, sm>>

\* render_all's loop over notes ends
Finish ==
    /\ pc = "next_note"
    /\ noteIdx > numNotes
    /\ pc' = "exit"
    /\ UNCHANGED <<numNotes, noteIdx, err, attempted, numPages, pageIdx,
                   prev_color, prev_thickness, cr, ops, rendered, sm>>

Next ==
    \/ MakeDirsFail
    \/ SurfaceFail
    \/ BeginNote
    \/ BeginPage
    \/ RenderStroke
    \/ EndPage
    \/ ReturnNote
    \/ Finish

Spec == Init /\ [][Next]_vars

\* ------------------------------------ the smoother's functions on their own
SmoothInit ==
    /\ numNotes = 0
    /\ noteIdx = 1
    /\ pc = "exit"
    /\ err = "none"
    /\ attempted = <<>>
    /\ numPages = 0
    /\ pageIdx = 0
    /\ prev_color = <<0, 0, 0>>
    /\ prev_thickness = 0
    /\ cr = NewContext
    /\ ops = <<>>
    /\ rendered = <<>>
    /\ \E d \in SmInputs, w \in 0..MaxWin, k \in 0..MaxFactor :
          sm = [fn |-> "idle", data |-> d, w |-> w, k |-> k, out |-> <<>>]

SmUnchanged ==
    UNCHANGED <<numNotes, noteIdx, pc, err, attempted, numPages, pageIdx,
                prev_color, prev_thickness, cr, ops, rendered>>

ApplyMovingAverage ==
    /\ sm.fn = "idle"
    /\ sm' = [sm EXCEPT !.fn = "moving_average",
                        !.out = moving_average(sm.data, sm.w)]
    /\ SmUnchanged

ApplySubsample ==
    /\ sm.fn = "idle"
    /\ sm' = [sm EXCEPT !.fn = "subsample", !.out = subsample(sm.data, sm.k)]
    /\ SmUnchanged

ApplySmoothen ==
    /\ sm.fn = "idle"
    /\ sm' = [sm EXCEPT !.fn = "smoothen", !.out = smoothen(sm.data, sm.w, sm.k)]
    /\ SmUnchanged

SmoothNext == ApplyMovingAverage \/ ApplySubsample \/ ApplySmoothen

SmoothSpec == SmoothInit /\ [][SmoothNext]_vars

\* ---------------------------------------------------- reading the history
CeilDiv(n, k) == (n + k - 1) \div k

IsSet(e) == e.op \in {"set_line_width", "set_source_rgb"}

Count(s, Test(_)) == Cardinality({i \in DOMAIN s : Test(s[i])})

\* the rows whose loop body ran to its end
Drawn == {sk \in DOMAIN rendered : ~(sk = Len(rendered) /\ err \in {"matrix", "reshape"})}

RowOf(sk) == rendered[sk].row

Malformed(row) == Len(row.points) % Stride /= 0

\* the calls of row sk
CallsOf(sk) == SelectSeq(ops, LAMBDA e : e.sk = sk)

\* the calls of row sk's loop over its samples
LoopCallsOf(sk) == SelectSeq(ops, LAMBDA e : e.sk = sk /\ e.ln >= 152)

Kinds(s) == [i \in DOMAIN s |-> <<s[i].op, s[i].arg>>]

\* render_pdf has returned for the current note
Returned == pc \in {"next_note", "exit"} /\ attempted /= <<>>

PagesShown == Count(ops, LAMBDA e : e.op = "show_page")

\* ---------------------------------------------------------------- C1
\* C1: every segment of a stroke whose shapeType is not 5 is committed while
\* the line width of the context is that stroke's thickness * width_scale.
C1_FixedWidthCommitted ==
    \A i \in DOMAIN ops :
        ops[i].op = "stroke" =>
            \A j \in DOMAIN ops[i].pend :
                ops[i].pend[j].type /= PressureTag =>
                    ops[i].w = fixed_width(ops[i].pend[j].thick)

\* ---------------------------------------------------------------- C2
\* C2: wherever the line width or the source colour is set to a value other
\* than the one in effect, the pending path holds no uncommitted segment.
C2_FlushBeforeChange ==
    \A i \in DOMAIN ops :
        \/ ops[i].op = "set_line_width" /\ ops[i].arg[1] /= ops[i].w
        \/ ops[i].op = "set_source_rgb" /\ ops[i].arg /= ops[i].src
        => ops[i].pend = <<>>

\* ---------------------------------------------------------------- C3
Scenario ==
    [points |-> Buf3, matrix |-> MatId, thickness |-> 2, type |-> 1, color |-> 255]

ScenarioDone ==
    /\ Returned
    /\ err = "none"
    /\ numPages = 1
    /\ rendered = <<[pg |-> 1, row |-> Scenario]>>

\* C3 as stated: the one-stroke scenario yields one colour-set to (0,0,1),
\* one width-set to 0.6, one move-to, 2 line-to and exactly one stroke-commit.
C3_Original ==
    ScenarioDone =>
        /\ Count(ops, LAMBDA e : e.op = "set_source_rgb" /\ e.arg = <<0, 0, 255>>) = 1
        /\ Count(ops, LAMBDA e : e.op = "set_line_width") = 1
        /\ Count(ops, LAMBDA e : e.op = "set_line_width" /\ e.arg = <<6000>>) = 1
        /\ Count(ops, LAMBDA e : e.op = "move_to") = 1
        /\ Count(ops, LAMBDA e : e.op = "line_to") = 2
        /\ Count(ops, LAMBDA e : e.op = "stroke") = 1

\* C3 amended: the scenario yields, after the colour-set to black made when
\* the context is created, a stroke-commit and the width-set to 0.6, a
\* stroke-commit and the colour-set to (0,0,1), one move-to and 1 line-to (the
\* 3 samples are subsampled to 2), the final stroke-commit and the page.
C3_Scenario ==
    ScenarioDone =>
        Kinds(ops) = << <<"set_source_rgb", <<0, 0, 0>> >>,
                        <<"stroke", <<>> >>,
                        <<"set_line_width", <<6000>> >>,
                        <<"stroke", <<>> >>,
                        <<"set_source_rgb", <<0, 0, 255>> >>,
                        <<"move_to", <<7920, 7920>> >>,
                        <<"line_to", <<10296, 10296>> >>,
                        <<"stroke", <<>> >>,
                        <<"show_page", <<>> >> >>

C3_Witness == ScenarioDone /\ Len(ops[8].pend) = 1

\* ---------------------------------------------------------------- C4
FlushBetween(i, j) == \E k \in (i + 1)..(j - 1) : ops[k].op = "stroke"

\* the pages shown whose rows all render at fixed width
FixedPages ==
    {p \in 1..numPages :
        /\ \E i \in DOMAIN ops : ops[i].op = "show_page" /\ ops[i].pg = p
        /\ \A sk \in DOMAIN rendered :
              rendered[sk].pg = p => ~has_pressure(RowOf(sk).type)}

CommitsEqualChangesPlusOne ==
    \A p \in FixedPages :
        Count(ops, LAMBDA e : e.pg = p /\ e.op = "stroke")
            = Count(ops, LAMBDA e : e.pg = p /\ IsSet(e)) + 1

\* C4 as stated: no two paint-state changes without a flush between them, and
\* on a page of fixed-width strokes the commits are the changes plus one.
C4_Original ==
    /\ \A j \in DOMAIN ops :
          IsSet(ops[j]) =>
              \A i \in 1..(j - 1) : IsSet(ops[i]) => FlushBetween(i, j)
    /\ CommitsEqualChangesPlusOne

\* C4 amended: apart from the per-sample width sets of a pressure stroke, no
\* paint-state change follows another without a flush between them, and on a
\* page of fixed-width strokes the commits are the changes plus one.
C4_FlushPerChange ==
    /\ \A j \in DOMAIN ops :
          IsSet(ops[j]) /\ ops[j].ln /= 152 =>
              \A i \in 1..(j - 1) : IsSet(ops[i]) => FlushBetween(i, j)
    /\ CommitsEqualChangesPlusOne

C4_Witness ==
    /\ 1 \in FixedPages
    /\ Len(rendered) = 2
    /\ rendered[1].pg = 1 /\ rendered[2].pg = 1
    /\ RowOf(1).color /= RowOf(2).color
    /\ RowOf(1).thickness = RowOf(2).thickness
    /\ Count(ops, LAMBDA e : e.pg = 1 /\ e.op = "stroke") = 3

\* ---------------------------------------------------------------- C5
\* C5: when render_all ends, with or without an error, render_pdf has been
\* invoked for every note of the list.
C5_AllNotesAttempted ==
    pc \in {"raised", "exit"} =>
        \A n \in 1..numNotes : \E i \in DOMAIN attempted : attempted[i] = n

\* ---------------------------------------------------------------- C6
\* C6: the step that reads a row whose point buffer is not a whole number of
\* 6-float samples raises, and leaves the calls made, the context and the
\* tracked paint state as they were.
C6_MalformedRaises ==
    [][(Len(rendered') = Len(rendered) + 1 /\ Malformed(rendered'[Len(rendered')].row))
          => /\ pc' = "raised"
             /\ err' /= "none"
             /\ ops' = ops
             /\ cr' = cr
             /\ prev_color' = prev_color
             /\ prev_thickness' = prev_thickness]_vars

C6_Witness ==
    /\ pc = "raised"
    /\ err = "reshape"
    /\ Len(rendered) = 2
    /\ Malformed(RowOf(2))
    /\ cr.path /= <<>>
    /\ \A i \in DOMAIN ops : ops[i].sk /= 2

\* ---------------------------------------------------------------- C7
\* C7: on a non-empty input of length n, moving_average with window >= 1
\* returns length n, subsample returns length ceil(n/k) for k > 1 and the
\* input for k <= 1, and smoothen returns length ceil(n/k) or n.
C7_Lengths ==
    LET n == Len(sm.data)
    IN  /\ sm.fn = "moving_average" /\ sm.w >= 1 => Len(sm.out) = n
        /\ sm.fn = "subsample" /\ sm.k > 1 => Len(sm.out) = CeilDiv(n, sm.k)
        /\ sm.fn = "subsample" /\ sm.k <= 1 => sm.out = sm.data
        /\ sm.fn = "smoothen" /\ sm.w >= 1 =>
              Len(sm.out) = IF sm.k > 1 THEN CeilDiv(n, sm.k) ELSE n

C7_Witness ==
    /\ sm.fn = "smoothen"
    /\ Len(sm.data) = 2
    /\ sm.w > 2
    /\ sm.k > 2
    /\ Len(sm.out) = 1

\* ---------------------------------------------------------------- C8
PressureRows == {sk \in Drawn : has_pressure(RowOf(sk).type)}

\* the loop's calls L for pressure row sk of n samples with pressures P: a
\* width-set and a move-to, then per further sample a width-set from that
\* sample's pressure, a line-to, a stroke-commit of a path holding one segment
\* (of the row, when OwnOnly) and a move-to to the same position
PressureLoopIs(L, P, sk, n, OwnOnly) ==
    /\ Len(L) = 2 + 4 * (n - 1)
    /\ Count(L, LAMBDA e : e.op = "stroke") = n - 1
    /\ \A r \in 2..n :
          LET b == 2 + 4 * (r - 2)
          IN  /\ L[b + 1].op = "set_line_width"
              /\ L[b + 2].op = "line_to"
              /\ L[b + 3].op = "stroke"
              /\ L[b + 4].op = "move_to"
              /\ L[b + 4].arg = L[b + 2].arg
              /\ L[b + 3].w = pressure_width(RowOf(sk).thickness, P[r][1])
              /\ Cardinality({j \in DOMAIN L[b + 3].pend :
                                 OwnOnly => L[b + 3].pend[j].sk = sk}) = 1

PressureLoop(sk, n, OwnOnly) ==
    \E L \in {LoopCallsOf(sk)} :
        \E P \in {SmoothPressure(reshape6(RowOf(sk).points).rows)} :
            PressureLoopIs(L, P, sk, n, OwnOnly)

FirstOfPage(sk) == \A s \in DOMAIN rendered : rendered[s].pg = rendered[sk].pg => s >= sk

PrevThickness(sk) == IF sk = 1 THEN 0 ELSE RowOf(sk - 1).thickness
PrevColor(sk) == IF sk = 1 THEN <<0, 0, 0>> ELSE color_bytes(RowOf(sk - 1).color)

FlushThenSet(sk, ln, arg) ==
    \E i \in DOMAIN ops :
        /\ i > 1
        /\ ops[i].sk = sk /\ ops[i].ln = ln /\ ops[i].arg = arg
        /\ ops[i - 1].op = "stroke" /\ ops[i - 1].sk = sk

C10_PagesFinalized ==
    /\ \A i \in DOMAIN ops :
          ops[i].op = "show_page" =>
              /\ i > 1
              /\ ops[i - 1].op = "stroke"
              /\ ops[i].pend = <<>>
              /\ ops[i].pg = Cardinality({j \in 1..i : ops[j].op = "show_page"})
    /\ \A i \in 1..(Len(ops) - 1) : ops[i].pg <= ops[i + 1].pg
    /\ pc = "rows" => PagesShown = pageIdx - 1 /\ cr.path = SelectSeq(cr.path, LAMBDA g : g.pg = pageIdx)
    /\ pc = "pages" => PagesShown = pageIdx /\ cr.path = <<>>
    /\ Returned /\ err = "none" => PagesShown = numPages

C10_Witness ==
    /\ Returned
    /\ numPages = 2
    /\ PagesShown = 2
    /\ Len(rendered) = 1
    /\ rendered[1].pg = 2
    /\ \E i \in DOMAIN ops : ops[i].ln = 164 /\ ops[i].pg = 2 /\ ops[i].pend /= <<>>

====
